---- MODULE Spec2Model ----
(***************************************************************************)
(* xml_structer: XML documents are reduced to an XmlStructure (names,      *)
(* attribute keys, nesting), a SkeletonSignature merges same-named         *)
(* siblings, and process_xml_files groups documents in a shared            *)
(* HashMap<u64, StructureGroup> keyed by XmlStructure::structure_hash.     *)
(*                                                                         *)
(* Representation.                                                         *)
(*  - An XmlStructure is a record [name, attributes, children]; attributes *)
(*    is the key set of the Option<BTreeMap<String, ()>> (None is {}: the  *)
(*    only writer, add_attribute, never leaves Some(empty)).               *)
(*  - A serde_json object is a function from its keys to its values, a     *)
(*    JSON array of strings is a sequence of strings.                      *)
(*  - A 64-bit digest is modelled by the byte stream fed to the hasher:    *)
(*    equal streams give equal digests, and unequal streams are taken to   *)
(*    give unequal digests (collisions of SipHash itself are left aside).  *)
(***************************************************************************)
EXTENDS Naturals, Sequences, FiniteSets, TLC

VARIABLES
    stack,       \* XmlStructure values under construction (build recursion)
    skeleton,    \* Option<SkeletonSignature> of the finished tree
    files,       \* process_xml_files: the input documents, by file path
    pc,          \* process_xml_files: where each worker is
    structure,   \* process_single_file: the parsed XmlStructure of each file
    lock,        \* the holder of the groups_map mutex, or NoHolder
    groups_map,  \* HashMap<u64, StructureGroup>
    result,      \* Option<ProcessingResult>: what process_xml_files returned
    created,     \* history: the keys of groups_map in the order of their creation
    xml,         \* validate::run: the input text, parsed or not
    report       \* validate::run: Option<Result<Report>>, what it returned

vars ==
    <<stack, skeleton, files, pc, structure, lock, groups_map, result, created,
      xml, report>>

\* Option<T>: None is the empty sequence, Some(v) the sequence <<v>>
None == <<>>
Some(v) == <<v>>

(***************************************************************************)
(* Strings: the byte-wise order of str::cmp on the vocabulary of the model *)
(***************************************************************************)
ATTRIBUTES_KEY == "@attributes"

StrOrder ==
    <<"", "@attributes", "article", "book", "chapter", "heading", "id", "lang",
      "title">>

Rank(s) == CHOOSE i \in 1..Len(StrOrder) : StrOrder[i] = s

StrLess(a, b) == Rank(a) < Rank(b)

Range(seq) == {seq[i] : i \in 1..Len(seq)}

\* BTreeMap::keys / BTreeMap iteration: the keys in ascending order
RECURSIVE Keys(_)
Keys(set) ==
    IF set = {} THEN <<>>
    ELSE LET least == CHOOSE k \in set : \A o \in set : o = k \/ StrLess(k, o)
         IN  <<least>> \o Keys(set \ {least})

\* slice::sort_by(|a, b| a.cmp(b)): a stable insertion sort
RECURSIVE InsertSorted(_, _)
InsertSorted(sorted, s) ==
    IF sorted = <<>> THEN <<s>>
    ELSE IF StrLess(s, Head(sorted)) THEN <<s>> \o sorted
    ELSE <<Head(sorted)>> \o InsertSorted(Tail(sorted), s)

RECURSIVE Sort(_)
Sort(seq) ==
    IF seq = <<>> THEN <<>>
    ELSE InsertSorted(Sort(SubSeq(seq, 1, Len(seq) - 1)), seq[Len(seq)])

(***************************************************************************)
(* XmlStructure                                                            *)
(***************************************************************************)
XmlStructureNew(name) == [name |-> name, attributes |-> {}, children |-> <<>>]

\* an add_attribute that starts a fresh map on every call
add_attribute_replaces(self, key) == [self EXCEPT !.attributes = {key}]

add_attribute(self, key) == [self EXCEPT !.attributes = @ \cup {key}]

add_child(self, child) == [self EXCEPT !.children = Append(@, child)]

\* impl Hash for XmlStructure: the strings written to the hasher, in order
RECURSIVE HashFeed(_)
RECURSIVE HashFeedAll(_)
HashFeedAll(children) ==
    IF children = <<>> THEN <<>>
    ELSE HashFeed(Head(children)) \o HashFeedAll(Tail(children))

HashFeed(self) ==
    <<self.name>> \o Keys(self.attributes) \o HashFeedAll(self.children)

structure_hash(self) == HashFeed(self)

(***************************************************************************)
(* SkeletonSignature                                                       *)
(***************************************************************************)
EmptyObject == <<>>

\* a merge that pushes every attr of new_attrs, contained or not
PushAll(existing_attrs, new_attrs) == existing_attrs \o new_attrs

\* the loop of lines 111-115: push every attr of new_attrs not yet contained
RECURSIVE PushMissing(_, _)
PushMissing(existing_attrs, new_attrs) ==
    IF new_attrs = <<>> THEN existing_attrs
    ELSE LET attr == Head(new_attrs)
         IN  PushMissing(IF attr \in Range(existing_attrs)
                            THEN existing_attrs
                            ELSE Append(existing_attrs, attr),
                         Tail(new_attrs))

\* a merge of the lists without the sort that follows the pushes
MergeAttributeListsUnsorted(existing_attrs, new_attrs) ==
    PushMissing(existing_attrs, new_attrs)

MergeAttributeLists(existing_attrs, new_attrs) ==
    Sort(PushMissing(existing_attrs, new_attrs))

\* the "@attributes" arm (lines 105-124): the lists are merged only when
\* existing holds the key too; otherwise existing is left as it is
HasAttributes(map) == ATTRIBUTES_KEY \in DOMAIN map

\* a merge that keeps what it has and takes nothing from new
merge_skeleton_values_keeps(existing, new) == existing

RECURSIVE merge_skeleton_values(_, _)
merge_skeleton_values(existing, new) ==
    [key \in DOMAIN existing \cup (DOMAIN new \ {ATTRIBUTES_KEY}) |->
        IF key = ATTRIBUTES_KEY
            THEN IF HasAttributes(new)
                    THEN MergeAttributeLists(existing[key], new[key])
                    ELSE existing[key]
        ELSE IF key \in DOMAIN existing /\ key \in DOMAIN new
            THEN merge_skeleton_values(existing[key], new[key])
        ELSE IF key \in DOMAIN existing THEN existing[key]
        ELSE new[key]]

\* children_by_name: the instances of one child name, in document order
Instances(node, child_name) ==
    SelectSeq(node.children, LAMBDA c : c.name = child_name)

ChildNames(node) == {node.children[i].name : i \in 1..Len(node.children)}

RECURSIVE build_skeleton_json(_)
RECURSIVE merge_child_instances(_)
RECURSIVE MergeRemaining(_, _)

\* the loop of lines 93-96
MergeRemaining(merged, instances) ==
    IF instances = <<>> THEN merged
    ELSE MergeRemaining(
            merge_skeleton_values(merged, build_skeleton_json(Head(instances))),
            Tail(instances))

merge_child_instances(instances) ==
    IF instances = <<>> THEN EmptyObject
    ELSE MergeRemaining(build_skeleton_json(instances[1]), Tail(instances))

\* a build that inserts the attributes entry without the is_empty check
build_skeleton_json_unchecked(node) ==
    [key \in ChildNames(node) \cup {ATTRIBUTES_KEY} |->
        IF key = ATTRIBUTES_KEY THEN Sort(Keys(node.attributes))
        ELSE merge_child_instances(Instances(node, key))]

build_skeleton_json(node) ==
    LET attr_list == Sort(Keys(node.attributes))
        keys == ChildNames(node)
                  \cup (IF attr_list # <<>> THEN {ATTRIBUTES_KEY} ELSE {})
    IN  [key \in keys |->
            IF key = ATTRIBUTES_KEY THEN attr_list
            ELSE merge_child_instances(Instances(node, key))]

\* serde_json's Value::to_string: compact JSON, object keys in BTreeMap order
RECURSIVE JoinStrings(_)
JoinStrings(list) ==
    IF list = <<>> THEN ""
    ELSE "\"" \o Head(list) \o "\""
         \o (IF Len(list) > 1 THEN "," ELSE "") \o JoinStrings(Tail(list))

RECURSIVE to_string(_)
RECURSIVE EntriesToString(_, _)
EntriesToString(object, keys) ==
    IF keys = <<>> THEN ""
    ELSE LET key == Head(keys)
         IN  "\"" \o key \o "\":"
             \o (IF key = ATTRIBUTES_KEY
                    THEN "[" \o JoinStrings(object[key]) \o "]"
                    ELSE to_string(object[key]))
             \o (IF Len(keys) > 1 THEN "," ELSE "")
             \o EntriesToString(object, Tail(keys))

to_string(object) == "{" \o EntriesToString(object, Keys(DOMAIN object)) \o "}"

hash_skeleton(skeleton_json) == to_string(skeleton_json)

from_structure(s) ==
    LET skeleton_json == build_skeleton_json(s)
    IN  [root |-> s.name,
         skeleton |-> skeleton_json,
         hash |-> hash_skeleton(skeleton_json)]

to_skeleton(self) == from_structure(self)

(***************************************************************************)
(* Parsed XML documents (roxmltree): an element node carries its tag name, *)
(* its attributes (name and value, in declaration order) and its child     *)
(* nodes; a text node carries its text.                                    *)
(***************************************************************************)
Attr(name, value) == [name |-> name, value |-> value]

Element(name, attributes, children) ==
    [kind |-> "element", name |-> name, attributes |-> attributes,
     children |-> children, text |-> ""]

Text(text) ==
    [kind |-> "text", name |-> "", attributes |-> <<>>, children |-> <<>>,
     text |-> text]

is_element(node) == node.kind = "element"

\* the loop of lines 26-28
RECURSIVE AddAttributes(_, _)
AddAttributes(s, attributes) ==
    IF attributes = <<>> THEN s
    ELSE AddAttributes(add_attribute(s, Head(attributes).name), Tail(attributes))

RECURSIVE build_structure_from_node(_)
RECURSIVE AddChildren(_, _)
RECURSIVE AddChildrenOfAnyKind(_, _)

\* a loop without the is_element test: every child node becomes a child
AddChildrenOfAnyKind(s, children) ==
    IF children = <<>> THEN s
    ELSE AddChildrenOfAnyKind(
            add_child(s, build_structure_from_node(Head(children))),
            Tail(children))

\* the loop of lines 31-36
AddChildren(s, children) ==
    IF children = <<>> THEN s
    ELSE AddChildren(
            IF is_element(Head(children))
                THEN add_child(s, build_structure_from_node(Head(children)))
                ELSE s,
            Tail(children))

build_structure_from_node(node) ==
    AddChildren(AddAttributes(XmlStructureNew(node.name), node.attributes),
                node.children)

\* A file: unreadable (fs::read_to_string fails), malformed (Document::parse
\* fails), or a well-formed document with its root element.
Unreadable == [status |-> "unreadable", root |-> Text("")]
Malformed == [status |-> "malformed", root |-> Text("<not>closed")]
Document(root) == [status |-> "ok", root |-> root]

\* a parse that swallows the error and builds from whatever it is given
parse_xml_structure_lenient(file) == Some(build_structure_from_node(file.root))

\* Result<XmlStructure>: Ok(structure) is Some(structure), Err is None
parse_xml_structure(file) ==
    IF file.status = "ok" THEN Some(build_structure_from_node(file.root)) ELSE None

(***************************************************************************)
(* StructureGroup                                                          *)
(***************************************************************************)
StructureGroupNew(s, file_path) ==
    [skeleton |-> to_skeleton(s),
     files |-> <<file_path>>,
     count |-> 1,
     example_structure |-> Some(s)]

\* an add_file that forgets the cached count
add_file_keeps_count(self, file_path) ==
    [self EXCEPT !.files = Append(@, file_path)]

\* an add_file that puts the new path in front
add_file_prepends(self, file_path) ==
    [self EXCEPT !.files = <<file_path>> \o @, !.count = @ + 1]

add_file(self, file_path) ==
    [self EXCEPT !.files = Append(@, file_path), !.count = @ + 1]

(***************************************************************************)
(* The construction of one XmlStructure, as build_structure_from_node      *)
(* does it: XmlStructure::new on entering an element, add_attribute for    *)
(* each of its attributes, the children, add_child into the parent on      *)
(* leaving it; then XmlStructure::to_skeleton on the finished root.        *)
(***************************************************************************)
ElementNames == {"book", "chapter"}
AttributeKeys == {"id", "title"}
MaxNodes == 4
MaxAttributes == 2

RECURSIVE NodeCount(_)
RECURSIVE NodeCountAll(_)
NodeCountAll(nodes) ==
    IF nodes = <<>> THEN 0 ELSE NodeCount(Head(nodes)) + NodeCountAll(Tail(nodes))

NodeCount(node) == 1 + NodeCountAll(node.children)

RECURSIVE AttributeCount(_)
RECURSIVE AttributeCountAll(_)
AttributeCountAll(nodes) ==
    IF nodes = <<>> THEN 0
    ELSE AttributeCount(Head(nodes)) + AttributeCountAll(Tail(nodes))

AttributeCount(node) ==
    Cardinality(node.attributes) + AttributeCountAll(node.children)

Top == stack[Len(stack)]

GroupingIdle ==
    /\ files = <<>>
    /\ pc = <<>>
    /\ structure = <<>>
    /\ lock = 0
    /\ groups_map = <<>>
    /\ result = None
    /\ created = <<>>

ValidationIdle ==
    /\ xml = None
    /\ report = None

InitSkel ==
    /\ stack = <<>>
    /\ skeleton = None
    /\ GroupingIdle
    /\ ValidationIdle

NewElement(name) ==
    /\ skeleton = None
    /\ NodeCountAll(stack) < MaxNodes
    /\ stack' = Append(stack, XmlStructureNew(name))
    /\ UNCHANGED <<skeleton, files, pc, structure, lock, groups_map, result, created,
                   xml, report>>

AddAttribute(key) ==
    /\ skeleton = None
    /\ stack # <<>>
    /\ Top.children = <<>>
    /\ key \notin Top.attributes
    /\ AttributeCountAll(stack) < MaxAttributes
    /\ stack' = [stack EXCEPT ![Len(stack)] = add_attribute(@, key)]
    /\ UNCHANGED <<skeleton, files, pc, structure, lock, groups_map, result, created,
                   xml, report>>

AddChild ==
    /\ skeleton = None
    /\ Len(stack) >= 2
    /\ stack' = [SubSeq(stack, 1, Len(stack) - 1)
                    EXCEPT ![Len(stack) - 1] = add_child(@, Top)]
    /\ UNCHANGED <<skeleton, files, pc, structure, lock, groups_map, result, created,
                   xml, report>>

ToSkeleton ==
    /\ skeleton = None
    /\ Len(stack) = 1
    /\ skeleton' = Some(to_skeleton(stack[1]))
    /\ UNCHANGED <<stack, files, pc, structure, lock, groups_map, result, created,
                   xml, report>>

NextSkel ==
    \/ \E name \in ElementNames : NewElement(name)
    \/ \E key \in AttributeKeys : AddAttribute(key)
    \/ AddChild
    \/ ToSkeleton

SpecSkel == InitSkel /\ [][NextSkel]_vars

(***************************************************************************)
(* process_xml_files: one worker per file path runs process_single_file    *)
(* (read, parse, hash; then lock groups_map, entry(hash), unlock); when    *)
(* every worker has returned, the groups are collected and sorted.         *)
(***************************************************************************)
NumDocs == 3

Corpus ==
    << \* <book id="1"><title>A</title></book>
       Document(Element("book", <<Attr("id", "1")>>,
                        <<Element("title", <<>>, <<Text("A")>>)>>)),
       \* <book id="2"> <title>B</title></book>
       Document(Element("book", <<Attr("id", "2")>>,
                        <<Text(" "), Element("title", <<>>, <<Text("B")>>)>>)),
       \* <book><chapter/><chapter/></book>
       Document(Element("book", <<>>,
                        <<Element("chapter", <<>>, <<>>),
                          Element("chapter", <<>>, <<>>)>>)),
       \* <book> <chapter>one</chapter> </book>
       Document(Element("book", <<>>,
                        <<Text(" "), Element("chapter", <<>>, <<Text("one")>>),
                          Text(" ")>>)),
       \* <book id="1"/>
       Document(Element("book", <<Attr("id", "1")>>, <<>>)),
       \* <book><id/></book>
       Document(Element("book", <<>>, <<Element("id", <<>>, <<>>)>>)),
       \* <book><title>X</title></book>
       Document(Element("book", <<>>, <<Element("title", <<>>, <<Text("X")>>)>>)),
       \* <article><heading>X</heading></article>
       Document(Element("article", <<>>,
                        <<Element("heading", <<>>, <<Text("X")>>)>>)),
       \* <book id="1" lang="en"/>
       Document(Element("book", <<Attr("id", "1"), Attr("lang", "en")>>, <<>>)),
       \* <book lang="en" id="1"/>
       Document(Element("book", <<Attr("lang", "en"), Attr("id", "1")>>, <<>>)),
       \* <not>closed
       Malformed,
       \* a path that cannot be read
       Unreadable >>

FilePaths == 1..NumDocs

\* The workers are interchangeable and par_iter may run them in any order,
\* so the inputs are taken with their corpus indices in ascending order.
Inputs ==
    {idx \in [FilePaths -> 1..Len(Corpus)] :
        \A i, j \in FilePaths : i < j => idx[i] <= idx[j]}

Init ==
    /\ stack = <<>>
    /\ skeleton = None
    /\ \E idx \in Inputs : files = [f \in FilePaths |-> Corpus[idx[f]]]
    /\ pc = [f \in FilePaths |-> "read"]
    /\ structure = [f \in FilePaths |-> None]
    /\ lock = 0
    /\ groups_map = <<>>
    /\ result = None
    /\ created = <<>>
    /\ ValidationIdle

\* lines 100-107, the file is read and parsed: Ok
ParseOk(f) ==
    /\ pc[f] = "read"
    /\ parse_xml_structure(files[f]) # None
    /\ structure' = [structure EXCEPT ![f] = parse_xml_structure(files[f])]
    /\ pc' = [pc EXCEPT ![f] = "lock"]
    /\ UNCHANGED <<stack, skeleton, files, lock, groups_map, result, created,
                   xml, report>>

\* lines 100-105, `?` returns the error: process_xml_files logs it (line 57)
ParseErr(f) ==
    /\ pc[f] = "read"
    /\ parse_xml_structure(files[f]) = None
    /\ pc' = [pc EXCEPT ![f] = "failed"]
    /\ UNCHANGED <<stack, skeleton, files, structure, lock, groups_map, result, created,
                   xml, report>>

\* a lock that is granted while another worker holds it
LockUnguarded(f) ==
    /\ pc[f] = "lock"
    /\ lock' = f
    /\ pc' = [pc EXCEPT ![f] = "entry"]
    /\ UNCHANGED <<stack, skeleton, files, structure, groups_map, result, created,
                   xml, report>>

\* line 110: groups_map.lock()
Lock(f) ==
    /\ pc[f] = "lock"
    /\ lock = 0
    /\ lock' = f
    /\ pc' = [pc EXCEPT ![f] = "entry"]
    /\ UNCHANGED <<stack, skeleton, files, structure, groups_map, result, created,
                   xml, report>>

\* an insert(hash, new) in place of entry(hash): the group is overwritten
EntryOverwrites(groups, hash, s, file_path) ==
    [h \in DOMAIN groups \cup {hash} |->
        IF h # hash THEN groups[h] ELSE StructureGroupNew(s, file_path)]

\* lines 112-115: entry(hash).and_modify(add_file).or_insert_with(new)
Entry(groups, hash, s, file_path) ==
    [h \in DOMAIN groups \cup {hash} |->
        IF h # hash THEN groups[h]
        ELSE IF hash \in DOMAIN groups THEN add_file(groups[h], file_path)
        ELSE StructureGroupNew(s, file_path)]

\* lines 112-118: the entry call, then the guard is dropped on return
Insert(f) ==
    /\ pc[f] = "entry"
    /\ lock = f
    /\ groups_map' = Entry(groups_map, structure_hash(structure[f][1]),
                           structure[f][1], f)
    /\ lock' = 0
    /\ pc' = [pc EXCEPT ![f] = "done"]
    /\ created' = IF structure_hash(structure[f][1]) \in DOMAIN groups_map
                    THEN created
                    ELSE Append(created, structure_hash(structure[f][1]))
    /\ UNCHANGED <<stack, skeleton, files, structure, result, xml, report>>

\* slice::sort_by(|a, b| b.count.cmp(&a.count)): stable, count descending
RECURSIVE InsertByCount(_, _)
InsertByCount(sorted, group) ==
    IF sorted = <<>> THEN <<group>>
    ELSE IF group.count > Head(sorted).count THEN <<group>> \o sorted
    ELSE <<Head(sorted)>> \o InsertByCount(Tail(sorted), group)

RECURSIVE SortByCount(_)
SortByCount(groups) ==
    IF groups = <<>> THEN <<>>
    ELSE InsertByCount(SortByCount(SubSeq(groups, 1, Len(groups) - 1)),
                       groups[Len(groups)])

\* HashMap::into_values: the values, in an order the HashMap chooses
IterationOrders(map) ==
    {order \in [1..Cardinality(DOMAIN map) -> DOMAIN map] :
        \A i, j \in DOMAIN order : order[i] = order[j] => i = j}

into_values(map, order) == [i \in DOMAIN order |-> map[order[i]]]

ProcessingResult(total_files, groups) ==
    [total_files |-> total_files,
     unique_structures |-> Len(groups),
     groups |-> groups]

\* a result collected without waiting for the workers
FinishEarly ==
    /\ result = None
    /\ \E order \in IterationOrders(groups_map) :
          result' = Some(ProcessingResult(
                        NumDocs, SortByCount(into_values(groups_map, order))))
    /\ UNCHANGED <<stack, skeleton, files, pc, structure, lock, groups_map,
                   created, xml, report>>

\* lines 71-92, after par_iter().for_each has joined every worker
Finish ==
    /\ result = None
    /\ \A f \in FilePaths : pc[f] \in {"done", "failed"}
    /\ \E order \in IterationOrders(groups_map) :
          result' = Some(ProcessingResult(
                        NumDocs, SortByCount(into_values(groups_map, order))))
    /\ UNCHANGED <<stack, skeleton, files, pc, structure, lock, groups_map,
                   created, xml, report>>

Next ==
    \/ \E f \in FilePaths : ParseOk(f)
    \/ \E f \in FilePaths : ParseErr(f)
    \/ \E f \in FilePaths : Lock(f)
    \/ \E f \in FilePaths : Insert(f)
    \/ Finish

Spec == Init /\ [][Next]_vars

\* The scheduling of the run: for_each returns when every closure has
\* returned, each closure runs on a worker thread that is not stopped, and
\* the mutex is released when its holder returns; so a step that can be
\* taken is taken in the end.
\* The documents of the runs checked for termination: <book id="1"/>,
\* <book><id/></book>, <book><title>X</title></book>, a malformed text and
\* an unreadable path.
FairDocuments == {Corpus[5], Corpus[6], Corpus[7], Malformed, Unreadable}

InitFair == Init /\ \A f \in FilePaths : files[f] \in FairDocuments

FairSpec == InitFair /\ [][Next]_vars /\ WF_vars(Next)

(***************************************************************************)
(* Claims about the skeleton (checked under SpecSkel)                      *)
(***************************************************************************)
Reduced == skeleton # None

Root == stack[1]

RECURSIVE Elements(_)
Elements(node) ==
    {node} \cup UNION {Elements(node.children[i]) : i \in 1..Len(node.children)}

IndexPermutations(n) ==
    {p \in [1..n -> 1..n] : \A i, j \in 1..n : p[i] = p[j] => i = j}

Permuted(seq, p) == [i \in 1..Len(seq) |-> seq[p[i]]]

AttributeSet(object) ==
    IF ATTRIBUTES_KEY \in DOMAIN object THEN Range(object[ATTRIBUTES_KEY]) ELSE {}

InstanceKeys(instances) ==
    UNION {instances[i].attributes : i \in 1..Len(instances)}

\* C5: the merged sub-skeleton of a bucket of same-named children is the
\* same for every permutation of the instances of the bucket.
C5_MergeOrderIndependent ==
    Reduced =>
        \A e \in Elements(Root) : \A name \in ChildNames(e) :
            LET instances == Instances(e, name)
            IN  \A p \in IndexPermutations(Len(instances)) :
                    merge_child_instances(Permuted(instances, p))
                        = merge_child_instances(instances)

\* C6: the "@attributes" list of the merged sub-skeleton of a bucket is
\* exactly the union of the attribute keys of all instances of the bucket.
C6_MergedAttributesAreUnion ==
    Reduced =>
        \A name \in ChildNames(Root) :
            AttributeSet(skeleton[1].skeleton[name])
                = InstanceKeys(Instances(Root, name))

\* C7: the mapping built for an element has exactly one entry per distinct
\* child element name, plus the attributes entry when (and only when) the
\* element has attributes.
C7_OneEntryPerChildName ==
    Reduced =>
        /\ DOMAIN skeleton[1].skeleton
             = {Root.children[i].name : i \in 1..Len(Root.children)}
                 \cup (IF Root.attributes # {} THEN {ATTRIBUTES_KEY} ELSE {})
        /\ \A e \in Elements(Root) :
              DOMAIN build_skeleton_json(e)
                = {e.children[i].name : i \in 1..Len(e.children)}
                    \cup (IF e.attributes # {} THEN {ATTRIBUTES_KEY} ELSE {})

C7_Witness ==
    /\ Reduced
    /\ Len(Root.children) = 3
    /\ \A i \in 1..3 : Root.children[i].name = "chapter"
    /\ Root.attributes = {"id"}
    /\ DOMAIN skeleton[1].skeleton = {ATTRIBUTES_KEY, "chapter"}

\* C8: merging a skeleton with itself changes nothing, and a bucket of k
\* identical instances reduces to the sub-skeleton of a bucket of one.
C8_MergeIdempotent ==
    Reduced =>
        /\ merge_skeleton_values(skeleton[1].skeleton, skeleton[1].skeleton)
             = skeleton[1].skeleton
        /\ \A e \in Elements(Root) :
              /\ merge_skeleton_values(build_skeleton_json(e), build_skeleton_json(e))
                   = build_skeleton_json(e)
              /\ merge_child_instances(<<e, e>>) = merge_child_instances(<<e>>)
              /\ merge_child_instances(<<e, e, e>>) = merge_child_instances(<<e>>)

C8_Witness ==
    /\ Reduced
    /\ Root.attributes = {"id", "title"}
    /\ \E i \in 1..Len(Root.children) : Root.children[i].children # <<>>
    /\ merge_skeleton_values(skeleton[1].skeleton, skeleton[1].skeleton)
         = skeleton[1].skeleton

\* The instances of a nested bucket: the children called name of all the
\* instances of the bucket above, in document order.
RECURSIVE ChildrenCalled(_, _)
ChildrenCalled(instances, name) ==
    IF instances = <<>> THEN <<>>
    ELSE Instances(Head(instances), name) \o ChildrenCalled(Tail(instances), name)

BucketChildNames(instances) ==
    UNION {ChildNames(instances[i]) : i \in 1..Len(instances)}

\* C25: in every mapping of the skeleton, at every depth, each entry other
\* than "@attributes" is the bucket of a child name; "@attributes" is there
\* only when the instances of the level have attribute keys, holds a
\* non-empty list of such keys, and no child bucket is called "@attributes".
RECURSIVE ReservedKeyOnly(_, _)
ReservedKeyOnly(object, instances) ==
    /\ DOMAIN object \ {ATTRIBUTES_KEY} \subseteq BucketChildNames(instances)
    /\ ATTRIBUTES_KEY \notin BucketChildNames(instances)
    /\ ATTRIBUTES_KEY \in DOMAIN object =>
          /\ InstanceKeys(instances) # {}
          /\ object[ATTRIBUTES_KEY] \in Seq(InstanceKeys(instances))
          /\ object[ATTRIBUTES_KEY] # <<>>
    /\ \A name \in DOMAIN object \ {ATTRIBUTES_KEY} :
          ReservedKeyOnly(object[name], ChildrenCalled(instances, name))

C25_ReservedKeyOnly ==
    Reduced => ReservedKeyOnly(skeleton[1].skeleton, <<Root>>)

\* the root has an attribute and a bucket of two instances, one of them
\* with an attribute
C25_Witness ==
    /\ Reduced
    /\ Root.attributes # {}
    /\ \E name \in ChildNames(Root) :
          /\ Len(Instances(Root, name)) = 2
          /\ Instances(Root, name)[1].attributes # {}
          /\ Instances(Root, name)[2].attributes = {}
          /\ ATTRIBUTES_KEY \in DOMAIN skeleton[1].skeleton[name]

\* C26: the child names of the merged sub-skeleton of a bucket are exactly
\* the child names of all of its instances, and so for each nested bucket.
RECURSIVE ChildNamesAreUnion(_, _)
ChildNamesAreUnion(object, instances) ==
    /\ DOMAIN object \ {ATTRIBUTES_KEY} = BucketChildNames(instances)
    /\ \A name \in BucketChildNames(instances) :
          ChildNamesAreUnion(object[name], ChildrenCalled(instances, name))

RECURSIVE AttributeListsSorted(_)
AttributeListsSorted(object) ==
    /\ ATTRIBUTES_KEY \in DOMAIN object =>
          \A i, j \in 1..Len(object[ATTRIBUTES_KEY]) :
              i < j => StrLess(object[ATTRIBUTES_KEY][i], object[ATTRIBUTES_KEY][j])
    /\ \A name \in DOMAIN object \ {ATTRIBUTES_KEY} :
          AttributeListsSorted(object[name])

C27_AttributeListsSorted == Reduced => AttributeListsSorted(skeleton[1].skeleton)

\* a bucket whose first instance has the greater key and whose second has
\* the lesser one: the merged list holds both
C27_Witness ==
    /\ Reduced
    /\ \E name \in ChildNames(Root) :
          /\ Len(Instances(Root, name)) = 2
          /\ Instances(Root, name)[1].attributes = {"title"}
          /\ Instances(Root, name)[2].attributes = {"id"}
          /\ skeleton[1].skeleton[name][ATTRIBUTES_KEY] = <<"id", "title">>

(***************************************************************************)
(* Claims about process_xml_files (checked under Spec)                     *)
(***************************************************************************)
Returned == result # None

Groups == result[1].groups

Parsed(f) == structure[f] # None

SkeletonOf(f) == to_skeleton(structure[f][1])

SameSkeleton(a, b) == a.root = b.root /\ a.skeleton = b.skeleton

Occurrences(f) ==
    {<<i, k>> \in (1..Len(Groups)) \X (1..NumDocs) :
        k <= Len(Groups[i].files) /\ Groups[i].files[k] = f}

RECURSIVE SumCounts(_)
SumCounts(groups) ==
    IF groups = <<>> THEN 0 ELSE Head(groups).count + SumCounts(Tail(groups))

Skipped == {f \in FilePaths : files[f].status # "ok"}

\* C1: no two groups of the final result have equal representative
\* skeletons (same root name and same merged shape), under any interleaving.
C1_OneGroupPerSkeleton ==
    Returned =>
        \A i, j \in 1..Len(Groups) :
            SameSkeleton(Groups[i].skeleton, Groups[j].skeleton) => i = j

\* C2: in the final result the counts of the groups sum to the number of
\* input documents minus those that failed to read or parse, and every
\* successfully processed id is in exactly one group, exactly once.
C2_GroupingConservation ==
    Returned =>
        /\ SumCounts(Groups) = NumDocs - Cardinality(Skipped)
        /\ \A f \in FilePaths \ Skipped : Cardinality(Occurrences(f)) = 1
        /\ \A f \in Skipped : Occurrences(f) = {}

C2_Witness ==
    /\ Returned
    /\ Cardinality(Skipped) = 1
    /\ Len(Groups) = 1
    /\ Groups[1].count = 2

\* C3: a document whose grouping hash equals the hash of an existing group
\* but whose shape differs from the group's representative is never
\* appended to that group: every member of a group has the shape of the
\* group's representative.
C3_CollisionKeptApart ==
    \A h \in DOMAIN groups_map :
        \A k \in 1..Len(groups_map[h].files) :
            SameSkeleton(SkeletonOf(groups_map[h].files[k]), groups_map[h].skeleton)

\* C4: two successfully parsed documents with equal reduced skeletons are
\* members of the same group of the final result.
C4_EqualSkeletonsShareGroup ==
    Returned =>
        \A f, g \in FilePaths :
            (Parsed(f) /\ Parsed(g) /\ SameSkeleton(SkeletonOf(f), SkeletonOf(g)))
                => \E i \in 1..Len(Groups) :
                      {f, g} \subseteq Range(Groups[i].files)

\* Documents that share element names, attribute key sets and nesting, and
\* may differ in attribute values and in text content.
ChildElements(node) == SelectSeq(node.children, LAMBDA c : c.kind = "element")

AttributeNames(node) == {node.attributes[i].name : i \in 1..Len(node.attributes)}

RECURSIVE SameShape(_, _)
SameShape(a, b) ==
    /\ a.name = b.name
    /\ AttributeNames(a) = AttributeNames(b)
    /\ Len(ChildElements(a)) = Len(ChildElements(b))
    /\ \A i \in 1..Len(ChildElements(a)) :
          SameShape(ChildElements(a)[i], ChildElements(b)[i])

\* C10: two documents that differ only in attribute values and text content
\* yield equal XmlStructure trees, equal structure_hash and equal skeletons
\* with equal hash.
C10_ValuesErased ==
    \A f, g \in FilePaths :
        (f < g /\ Parsed(f) /\ Parsed(g)
              /\ SameShape(files[f].root, files[g].root))
            => LET sf == SkeletonOf(f)
                   sg == SkeletonOf(g)
               IN  /\ structure[f] = structure[g]
                   /\ structure_hash(structure[f][1])
                        = structure_hash(structure[g][1])
                   /\ sf = sg
                   /\ sf.hash = sg.hash

C10_Witness ==
    \E f, g \in FilePaths :
        /\ Parsed(f) /\ Parsed(g)
        /\ files[f] # files[g]
        /\ SameShape(files[f].root, files[g].root)
        /\ files[f].root.attributes # files[g].root.attributes
        /\ files[f].root.children # files[g].root.children
        /\ structure[f] = structure[g]

\* C11: when all input documents share element names, attribute key sets
\* and nesting, the result has exactly one group, whose count is the number
\* of documents, whatever the interleaving of the workers.
AllSameShape ==
    \A f, g \in FilePaths :
        /\ files[f].status = "ok"
        /\ files[g].status = "ok"
        /\ SameShape(files[f].root, files[g].root)

C11_OneShapeOneGroup ==
    (Returned /\ AllSameShape) =>
        /\ Len(Groups) = 1
        /\ Groups[1].count = NumDocs
        /\ Range(Groups[1].files) = FilePaths

C11_Witness ==
    /\ Returned
    /\ AllSameShape
    /\ \E f, g \in FilePaths : files[f] # files[g]
    /\ Len(Groups) = 1
    /\ Groups[1].count = NumDocs

\* Documents that differ only in the order in which the attributes of their
\* elements are declared.
RECURSIVE AttributesReordered(_, _)
AttributesReordered(a, b) ==
    /\ a.kind = b.kind
    /\ a.name = b.name
    /\ a.text = b.text
    /\ Len(a.attributes) = Len(b.attributes)
    /\ \E p \in IndexPermutations(Len(a.attributes)) :
          Permuted(a.attributes, p) = b.attributes
    /\ Len(a.children) = Len(b.children)
    /\ \A i \in 1..Len(a.children) :
          AttributesReordered(a.children[i], b.children[i])

\* C12: documents that differ only in attribute declaration order yield
\* equal XmlStructure trees and equal skeletons.
C12_AttributeOrderIrrelevant ==
    \A f, g \in FilePaths :
        (f < g /\ Parsed(f) /\ Parsed(g)
              /\ AttributesReordered(files[f].root, files[g].root))
            => /\ structure[f] = structure[g]
               /\ SkeletonOf(f) = SkeletonOf(g)

C12_Witness ==
    \E f, g \in FilePaths :
        /\ Parsed(f) /\ Parsed(g)
        /\ AttributesReordered(files[f].root, files[g].root)
        /\ files[f].root.attributes # files[g].root.attributes
        /\ Len(files[f].root.attributes) = 2
        /\ structure[f] = structure[g]

\* Documents that differ in an element name, in an attribute-key set or in
\* a child-name set at some depth.
ChildElementNames(node) ==
    {ChildElements(node)[i].name : i \in 1..Len(ChildElements(node))}

RECURSIVE DiffersInShape(_, _)
DiffersInShape(a, b) ==
    \/ a.name # b.name
    \/ AttributeNames(a) # AttributeNames(b)
    \/ ChildElementNames(a) # ChildElementNames(b)
    \/ /\ Len(ChildElements(a)) = Len(ChildElements(b))
       /\ \E i \in 1..Len(ChildElements(a)) :
             DiffersInShape(ChildElements(a)[i], ChildElements(b)[i])

\* C13: two documents that differ in an element name, an attribute-key set
\* or a child-name set at any depth are never members of the same group of
\* the result.
C13_DifferentShapesApart ==
    Returned =>
        \A i \in 1..Len(Groups) : \A f, g \in Range(Groups[i].files) :
            ~DiffersInShape(files[f].root, files[g].root)

\* C14 (checked under SpecSkel): the skeletons of two documents that differ
\* in an element name, the root's included, carry different hashes: here
\* the finished tree against the same tree under another root name.
Renamed(node, name) == [node EXCEPT !.name = name]

C14_NamesDecideHash ==
    Reduced =>
        \A name \in ElementNames \ {Root.name} :
            /\ to_skeleton(Renamed(Root, name)) # skeleton[1]
            /\ to_skeleton(Renamed(Root, name)).hash # skeleton[1].hash

\* C15: a document that fails to read or parse ends its worker with an
\* error value and nothing else: process_xml_files still returns, the
\* failing id is in no group, and the other documents are grouped as they
\* are without it (the groups are those of the readable, well-formed
\* documents alone).
AllJoined == \A f \in FilePaths : pc[f] \in {"done", "failed"}

HashOfFile(f) == structure_hash(build_structure_from_node(files[f].root))

GroupingOfParsable ==
    {{g \in FilePaths \ Skipped : HashOfFile(g) = HashOfFile(f)} :
        f \in FilePaths \ Skipped}

C15_FailuresSkipped ==
    /\ \A f \in Skipped : pc[f] \in {"read", "failed"} /\ structure[f] = None
    /\ (Skipped # {} /\ AllJoined /\ ~Returned) => ENABLED Finish
    /\ Returned =>
          /\ \A f \in Skipped : pc[f] = "failed" /\ Occurrences(f) = {}
          /\ {Range(Groups[i].files) : i \in 1..Len(Groups)} = GroupingOfParsable
          /\ \A i \in 1..Len(Groups) :
                Groups[i].count = Cardinality(Range(Groups[i].files))

C15_Witness ==
    /\ Returned
    /\ \E f, g \in Skipped : files[f].status = "malformed"
                             /\ files[g].status = "unreadable"
    /\ Len(Groups) = 1
    /\ Groups[1].files = <<1>>

\* C16: the total_files of the result counts only the documents that were
\* successfully processed.
C16_TotalCountsProcessed ==
    Returned => result[1].total_files = NumDocs - Cardinality(Skipped)

\* C17: the groups of the result are ordered by count descending, and
\* groups of equal count are in the order of their creation.
CreationIndex(group) ==
    CHOOSE k \in 1..Len(created) : groups_map[created[k]] = group

C17_OrderedByCountThenCreation ==
    Returned =>
        \A i, j \in 1..Len(Groups) :
            i < j =>
                \/ Groups[i].count > Groups[j].count
                \/ /\ Groups[i].count = Groups[j].count
                   /\ CreationIndex(Groups[i]) < CreationIndex(Groups[j])

\* C18: in every state of a group its count is the length of its files, and
\* in the result unique_structures is the number of groups.
C18_CountIsLength ==
    /\ \A h \in DOMAIN groups_map :
          groups_map[h].count = Len(groups_map[h].files)
    /\ Returned =>
          /\ result[1].unique_structures = Len(Groups)
          /\ result[1].unique_structures = Cardinality(DOMAIN groups_map)
          /\ \A i \in 1..Len(Groups) : Groups[i].count = Len(Groups[i].files)

C18_Witness ==
    /\ Returned
    /\ result[1].unique_structures = 2
    /\ Groups[1].count = 2
    /\ Len(Groups[1].files) = 2

\* C19: for a fixed input the grouping does not depend on the order in
\* which the workers reach the grouping step: the result has the members,
\* counts and representative skeletons of the run that takes the files one
\* after the other in input order.
RECURSIVE InOrderRun(_)
InOrderRun(n) ==
    IF n = 0 THEN <<>>
    ELSE LET parsed == parse_xml_structure(files[n])
         IN  IF parsed = None THEN InOrderRun(n - 1)
             ELSE Entry(InOrderRun(n - 1), structure_hash(parsed[1]), parsed[1], n)

GroupingOf(groups) ==
    {[members |-> Range(g.files), count |-> g.count, skeleton |-> g.skeleton] :
        g \in groups}

C19_OrderIndependent ==
    Returned =>
        GroupingOf(Range(Groups))
            = GroupingOf({InOrderRun(NumDocs)[h] : h \in DOMAIN InOrderRun(NumDocs)})

(***************************************************************************)
(* validation/report.rs and validation/validate.rs.  A report holds three  *)
(* lists of messages; run fills one from a text.  Result<Report> is a      *)
(* record: Ok(rep) holds the report, Err holds none.                       *)
(***************************************************************************)
Ok(value) == [ok |-> TRUE, value |-> <<value>>]
Err == [ok |-> FALSE, value |-> <<>>]

Message(line, column, text) == [line |-> line, column |-> column, text |-> text]

ReportNew == [errors |-> <<>>, warnings |-> <<>>, info |-> <<>>]

\* a validity that also wants the warnings list empty
is_valid_strict(self) == self.errors = <<>> /\ self.warnings = <<>>

is_valid(self) == self.errors = <<>>

push(self, line, column, text, severity) ==
    LET msg == Message(line, column, text)
    IN  CASE severity = "Error" ->
                [self EXCEPT !.errors = Append(@, msg)]
          [] severity = "Warning" ->
                [self EXCEPT !.warnings = Append(@, msg)]
          [] severity = "Info" ->
                [self EXCEPT !.info = Append(@, msg)]

\* The text of a document is its nodes written on one line; a node's
\* position is row 1 and the column after the characters written before it
\* (a leading byte order mark is one character).
RECURSIVE AttributesWidth(_)
AttributesWidth(attributes) ==
    IF attributes = <<>> THEN 0
    ELSE Len(" ") + Len(Head(attributes).name) + Len("=\"")
            + Len(Head(attributes).value) + Len("\"")
            + AttributesWidth(Tail(attributes))

OpenTagWidth(node) ==
    Len("<") + Len(node.name) + AttributesWidth(node.attributes) + Len(">")

RECURSIVE Width(_)
RECURSIVE WidthAll(_)
WidthAll(nodes) ==
    IF nodes = <<>> THEN 0 ELSE Width(Head(nodes)) + WidthAll(Tail(nodes))

Width(node) ==
    IF ~is_element(node) THEN Len(node.text)
    ELSE IF node.children = <<>>
        THEN Len("<") + Len(node.name) + AttributesWidth(node.attributes)
                + Len("/>")
        ELSE OpenTagWidth(node) + WidthAll(node.children)
                + Len("</") + Len(node.name) + Len(">")

node_pos(offset) == [row |-> 1, col |-> offset + 1]

attribute(node, key) ==
    IF \E i \in DOMAIN node.attributes : node.attributes[i].name = key
        THEN Some(key) ELSE None

\* str::to_lowercase and str::contains("tei") on the element names in use
to_lowercase(name) ==
    CASE name = "TEI" -> "tei"
      [] name = "teiCorpus" -> "teicorpus"
      [] OTHER -> name

contains_tei(name) == name \in {"tei", "teicorpus"}

validate_root(root, rep) ==
    IF contains_tei(to_lowercase(root.name)) THEN rep
    ELSE push(rep, 0, 0,
              "Root element should contain 'tei' (case-insensitive), found <"
                  \o root.name \o ">",
              "Warning")

RECURSIVE walk(_, _, _, _)
RECURSIVE WalkChildren(_, _, _, _)

\* lines 80-82: the element children in document order; offset is the
\* number of characters written before the first of them
WalkChildren(children, rep, ancestors, offset) ==
    IF children = <<>> THEN rep
    ELSE WalkChildren(
            Tail(children),
            IF is_element(Head(children))
                THEN walk(Head(children), rep, ancestors, offset)
                ELSE rep,
            ancestors,
            offset + Width(Head(children)))

\* ancestors: the names of the elements above node; Node::ancestors starts
\* at the node itself
walk(node, rep, ancestors, offset) ==
    LET here == node_pos(offset)
        missing_ed ==
            IF attribute(node, "ed") = None
                THEN push(rep, here.row, here.col, "<pb> missing @ed", "Error")
                ELSE rep
        missing_n ==
            IF attribute(node, "n") = None
                THEN push(missing_ed, here.row, here.col, "<pb> missing @n",
                          "Error")
                ELSE missing_ed
        checked ==
            CASE node.name = "pb" -> missing_n
              [] node.name = "head" ->
                    IF "div" \notin (ancestors \cup {node.name})
                        THEN push(rep, here.row, here.col,
                                  "<head> should be inside <div>", "Warning")
                        ELSE rep
              [] OTHER -> rep
    IN  WalkChildren(node.children, checked, ancestors \cup {node.name},
                     offset + OpenTagWidth(node))

\* A text handed to run: well-formed with its root element, or one that
\* Document::parse refuses with an error (position and Display text);
\* either may start with a byte order mark.  A path handed to validate may
\* also be unreadable.
NoError == [row |-> 0, col |-> 0, message |-> ""]
XmlText(bom, root) ==
    [bom |-> bom, status |-> "ok", root |-> root, error |-> NoError]
BrokenText(bom, error) ==
    [bom |-> bom, status |-> "malformed", root |-> Text(""), error |-> error]
UnreadablePath ==
    [bom |-> FALSE, status |-> "unreadable", root |-> Text(""),
     error |-> NoError]

BomWidth(input) == IF input.bom THEN 1 ELSE 0

\* a run that looks for the byte order mark before it parses
run_bom_first(input) ==
    LET marked ==
            IF input.bom
                THEN push(ReportNew, 1, 1,
                          "UTF-8 BOM detected (harmless but unnecessary)",
                          "Info")
                ELSE ReportNew
    IN  IF input.status # "ok"
            THEN Ok(push(marked, input.error.row, input.error.col,
                         "XML parsing error: " \o input.error.message, "Error"))
            ELSE Ok(walk(input.root, validate_root(input.root, marked), {},
                         BomWidth(input)))

run(input) ==
    IF input.status # "ok"
        THEN Ok(push(ReportNew, input.error.row, input.error.col,
                     "XML parsing error: " \o input.error.message, "Error"))
        ELSE LET marked ==
                     IF input.bom
                         THEN push(ReportNew, 1, 1,
                                   "UTF-8 BOM detected (harmless but unnecessary)",
                                   "Info")
                         ELSE ReportNew
             IN  Ok(walk(input.root, validate_root(input.root, marked), {},
                         BomWidth(input)))

\* lib.rs, the one-call entry point: read_to_string, `?`, then run
validate(path) ==
    IF path.status = "unreadable" THEN Err ELSE run(path)

(***************************************************************************)
(* The texts validated: a root element holding at most MaxChildren blocks; *)
(* a block is a <pb> (with any of @ed, @n), a <head>, or a <div> or <body> *)
(* around at most one of those.  The malformed texts carry the error       *)
(* Document::parse gives, as for the "<not>closed" of test_broken_xml.     *)
(***************************************************************************)
MaxChildren == 2

RootNames == {"TEI", "teiCorpus", "book"}

PbElements ==
    {Element("pb", attributes, <<>>) :
        attributes \in {<<>>, <<Attr("ed", "A")>>, <<Attr("n", "1")>>,
                        <<Attr("ed", "A"), Attr("n", "1")>>}}

HeadElement == Element("head", <<>>, <<Text("Title")>>)

Leaves == PbElements \cup {HeadElement}

Blocks ==
    Leaves \cup
    {Element(name, <<>>, children) :
        name \in {"div", "body"},
        children \in {<<>>} \cup {<<leaf>> : leaf \in Leaves}}

SeqsUpTo(S, n) == UNION {[1..k -> S] : k \in 0..n}

ParseErrors ==
    {[row |-> 1, col |-> 1,
      message |-> "the root node was opened but never closed"],
     [row |-> 1, col |-> 12,
      message |-> "unexpected end of stream"]}

Texts ==
    {XmlText(bom, Element(name, <<>>, children)) :
        bom \in BOOLEAN, name \in RootNames,
        children \in SeqsUpTo(Blocks, MaxChildren)}
    \cup {BrokenText(bom, error) : bom \in BOOLEAN, error \in ParseErrors}

InitValidate ==
    /\ stack = <<>>
    /\ skeleton = None
    /\ GroupingIdle
    /\ xml \in {Some(input) : input \in Texts \cup {UnreadablePath}}
    /\ report = None

\* validate::run(&xml), called on a text
Run ==
    /\ report = None
    /\ xml[1].status # "unreadable"
    /\ report' = Some(run(xml[1]))
    /\ UNCHANGED <<stack, skeleton, files, pc, structure, lock, groups_map,
                   result, created, xml>>

\* validate(path), called on a path
Validate ==
    /\ report = None
    /\ report' = Some(validate(xml[1]))
    /\ UNCHANGED <<stack, skeleton, files, pc, structure, lock, groups_map,
                   result, created, xml>>

NextValidate ==
    \/ Run
    \/ Validate

SpecValidate == InitValidate /\ [][NextValidate]_vars

(***************************************************************************)
(* Claims checked under SpecValidate                                       *)
(***************************************************************************)
Rep == report[1].value[1]

\* C20: on a malformed text run returns Ok with a report of exactly one
\* error, whose text is not empty, no warning and no info, and the report is
\* not valid; a report is valid exactly when its errors list is empty, so a
\* report with warnings and no error is valid.
C20_MalformedGivesOneError ==
    report # None =>
        /\ xml[1].status = "malformed" =>
              /\ report[1].ok
              /\ Len(Rep.errors) = 1
              /\ Rep.errors[1].text # ""
              /\ Rep.warnings = <<>>
              /\ Rep.info = <<>>
              /\ ~is_valid(Rep)
        /\ report[1].ok =>
              /\ is_valid(Rep) <=> Len(Rep.errors) = 0
              /\ (Len(Rep.errors) = 0 /\ Len(Rep.warnings) > 0)
                    => is_valid(Rep)

\* a malformed text that starts with a byte order mark has been validated
C20_Witness ==
    /\ report # None
    /\ xml[1].status = "malformed"
    /\ xml[1].bom
    /\ report[1].ok
    /\ Len(Rep.errors) = 1

(***************************************************************************)
(* Claims about the run of process_xml_files as a whole (under Spec)       *)
(***************************************************************************)
InEntry == {f \in FilePaths : pc[f] = "entry"}

\* C21: at most one worker at a time is inside the lookup-then-create-or-
\* append step on the shared table, that worker is the holder of the lock,
\* the table changes only by the step of that worker, and a worker that is
\* still reading and parsing does not hold the lock.
C21_OneWorkerInEntry ==
    /\ [](/\ Cardinality(InEntry) <= 1
          /\ \A f \in FilePaths : pc[f] = "entry" <=> lock = f
          /\ \A f \in FilePaths :
                pc[f] = "read" => lock # f /\ structure[f] = None)
    /\ [][groups_map' # groups_map =>
            \E f \in FilePaths :
                /\ lock = f
                /\ InEntry = {f}
                /\ pc' = [pc EXCEPT ![f] = "done"]
                /\ lock' = 0]_vars

\* one worker is inside the step while another, with a document of the same
\* hash, waits for the lock and a third has not parsed yet
C21_Witness ==
    \E f, g, r \in FilePaths :
        /\ pc[f] = "entry"
        /\ pc[g] = "lock"
        /\ pc[r] = "read"
        /\ structure_hash(structure[f][1]) = structure_hash(structure[g][1])

\* C22: the table only grows: every group of the table is there after each
\* step, under the same hash, and its files before the step are the first
\* of its files after it, so every id keeps its group and its position.
C22_TableOnlyGrows ==
    [][\A h \in DOMAIN groups_map :
          /\ h \in DOMAIN groups_map'
          /\ Len(groups_map'[h].files) >= Len(groups_map[h].files)
          /\ SubSeq(groups_map'[h].files, 1, Len(groups_map[h].files))
               = groups_map[h].files
          /\ \A k \in DOMAIN groups_map' :
                k # h => Range(groups_map'[k].files)
                           \cap Range(groups_map[h].files) = {}]_vars

\* a table of two groups, one of which has had a second file appended
C22_Witness ==
    \E h, k \in DOMAIN groups_map :
        /\ h # k
        /\ Len(groups_map[h].files) = 2
        /\ Len(groups_map[k].files) = 1

\* C23: the run comes to its end for every input list, and a result is there
\* only when no worker is still processing: every document has then been
\* added to a group of the table or has failed, and the groups of the result
\* are the groups of the table.
C23_RunsToCompletion ==
    /\ <>Returned
    /\ [](Returned =>
            /\ lock = 0
            /\ \A f \in FilePaths :
                  \/ pc[f] = "failed"
                  \/ /\ pc[f] = "done"
                     /\ \E h \in DOMAIN groups_map :
                           f \in Range(groups_map[h].files)
            /\ Range(Groups) = {groups_map[h] : h \in DOMAIN groups_map})

\* a result of a run in which one document failed and the others made two
\* groups
C23_Witness ==
    /\ Returned
    /\ Cardinality({f \in FilePaths : pc[f] = "failed"}) = 1
    /\ Cardinality({f \in FilePaths : pc[f] = "done"}) = NumDocs - 1
    /\ Len(Groups) = 2

\* C24: the skeleton and the example structure of a group are those of the
\* document that created it, the first of its files, in the table and in
\* the result; a step that changes a group appends exactly one id to its
\* files and adds one to its count, and changes nothing else of it.
CreatedByFirst(group) ==
    /\ group.skeleton = to_skeleton(structure[group.files[1]][1])
    /\ group.example_structure = Some(structure[group.files[1]][1])

C24_FirstDocumentKept ==
    /\ [](/\ \A h \in DOMAIN groups_map : CreatedByFirst(groups_map[h])
          /\ Returned => \A i \in 1..Len(Groups) : CreatedByFirst(Groups[i]))
    /\ [][\A h \in DOMAIN groups_map :
            groups_map'[h] # groups_map[h] =>
                \E f \in FilePaths :
                    groups_map'[h] =
                        [groups_map[h] EXCEPT !.files = Append(@, f),
                                              !.count = @ + 1]]_vars

\* a group has taken in a second document whose structure is not that of
\* the first
C24_Witness ==
    \E h \in DOMAIN groups_map :
        /\ Len(groups_map[h].files) = 2
        /\ structure[groups_map[h].files[2]] # structure[groups_map[h].files[1]]
        /\ groups_map[h].count = 2

\* C28: the result of a run in which documents failed reports the count of
\* the failed documents: one of the numbers it holds is that count.
ReportedNumbers == {result[1].total_files, result[1].unique_structures}

C28_FailureCountReported ==
    (Returned /\ Skipped # {}) => Cardinality(Skipped) \in ReportedNumbers

\* C29: what the Hash implementation feeds to the hasher determines the
\* tree: two parsed structures that are not equal never feed the same
\* sequence of strings.
C29_FeedDeterminesTree ==
    \A f, g \in FilePaths :
        (f < g /\ Parsed(f) /\ Parsed(g) /\ structure[f] # structure[g])
            => HashFeed(structure[f][1]) # HashFeed(structure[g][1])

====
